---- MODULE Spec2Model ----
(***************************************************************************)
(* The entity store of the peer-mentorship platform: the tables users,     *)
(* courses, enrollments, reviews, certificates, mentor_requests, sessions, *)
(* learning_communities and user_projects, the row-level security policies *)
(* that guard them, and the enrollment completion trigger                  *)
(* award_completion_xp.  Every request of an authenticated principal is    *)
(* one statement and is modelled as one atomic action; the trigger runs    *)
(* inside the statement that fires it, with the rights of the principal    *)
(* that issued the statement (the function is not SECURITY DEFINER), and   *)
(* an error raised in it rolls the whole statement back.                   *)
(***************************************************************************)
EXTENDS Integers, FiniteSets, TLC

(* ---------------------------- bounds ----------------------------------- *)

\* The principals (auth.uid() values) and the course identifiers in play.
Users == {"u1", "u2"}
Courses == {"c1"}

\* At most this many rows in reviews.
MaxReviews == 1

\* Values a client writes into users.xp_points / users.level_number.
XpInputs == {0, 80}
LevelInputs == {1, 2}

\* Values a client writes into reviews.rating (around the CHECK's limits).
RatingInputs == {0, 1, 5, 6}

\* Outcomes of gen_random_uuid() truncated to 8 characters.
CertIds == {"CERT-A", "CERT-B"}

\* Values a client writes into users.year_of_study (around the policies' 2).
YearInputs == {1, 2}

\* The identifiers in play of learning_communities, mentor_requests, sessions
\* and user_projects rows.
CommunityIds == {"g1"}
RequestIds == {"r1"}
SessionIds == {"s1"}
ProjectIds == {"p1"}

\* Values of a nullable timestamptz column: NULL, or some instant.
NULL == "null"
Timestamps == {NULL, "t"}

(* ------------------------ program constants ---------------------------- *)

Roles == {"student", "mentor", "admin"}
DefaultRole == "student"
DefaultYear == 1
DefaultXp == 0
DefaultLevel == 1
XpAward == 50
XpPerLevel == 100
MinRating == 1
MaxRating == 5
SeniorYear == 2
RequestStatuses == {"pending", "approved", "rejected"}
DefaultStatus == "pending"

\* The columns of users a progression client names in an update's SET list,
\* and the ones a community client names.
UserColumns == {"role", "xp_points", "level_number"}
SeniorityColumns == {"role", "year_of_study"}

\* The updates a client sends to updateProfile (a Partial<UserProfile>) that
\* name columns among columns, and at least one: the columns named and a
\* value for each (a column it does not name carries the column default here
\* and is not written).
UserPatchesOver(columns) ==
    UNION {{[cols |-> cols, role |-> role, year_of_study |-> year,
             xp_points |-> xp, level_number |-> level] :
                role \in (IF "role" \in cols THEN Roles ELSE {DefaultRole}),
                year \in (IF "year_of_study" \in cols THEN YearInputs
                                                       ELSE {DefaultYear}),
                xp \in (IF "xp_points" \in cols THEN XpInputs ELSE {DefaultXp}),
                level \in (IF "level_number" \in cols THEN LevelInputs
                                                       ELSE {DefaultLevel})} :
            cols \in (SUBSET columns) \ {{}}}

UserPatches == UserPatchesOver(UserColumns)

VARIABLES
    users,          \* id -> [role, year_of_study, xp_points, level_number]
    courses,        \* id -> [mentor_id, is_active]
    enrollments,    \* set of [id, student_id, course_id, is_completed, completed_at]
    reviews,        \* set of [id, student_id, course_id, mentor_id]
    certificates,   \* set of [student_id, course_id, mentor_id, certificate_id]
    mentor_requests,        \* id -> [student_id, status, reviewed_at]
    sessions,               \* id -> [mentor_id]
    learning_communities,   \* id -> [created_by, is_active]
    user_projects,          \* id -> [user_id]
    community_members,      \* set of [community_id, user_id]
    community_resources,    \* set of [community_id, uploaded_by]
    is_member,              \* user -> the communities whose page shows is_member
    accounts,               \* the ids of the authentication accounts
    signUp,                 \* user -> where that user's signUp call stands
    user,                   \* useAuth: the user state
    profile,                \* useAuth: the profile state
    loading,                \* useAuth: the loading state
    mounted,                \* useAuth: the effect's mounted flag
    getSession,             \* useAuth: the getSession() promise
    fetches,                \* useAuth: the fetchProfile calls in flight
    badges,                 \* set of badge names
    user_badges,            \* set of [user_id, badge]
    resp            \* what the last request returned to its caller

vars == <<users, courses, enrollments, reviews, certificates, mentor_requests,
          sessions, learning_communities, user_projects, community_members,
          community_resources, is_member, accounts, signUp, user, profile,
          loading, mounted, getSession, fetches, badges, user_badges, resp>>

\* The tables of the progression core, and the other record tables.
core == <<users, courses, enrollments, reviews, certificates>>
side == <<mentor_requests, sessions, learning_communities, user_projects>>

\* Community membership and resources with the page state read from them, and
\* the client: authentication accounts, signUp calls and the useAuth hook.
community == <<community_members, community_resources, is_member>>
hook == <<user, profile, loading, mounted, getSession, fetches>>
client == <<accounts, signUp, hook>>
awards == <<badges, user_badges>>
beside == <<community, client, awards>>

store == <<core, side, beside>>

\* A response: the request and the principal that sent it, "ok" / "rls"
\* (row-level security error) / "constraint" (constraint violation), and the
\* number of rows written or read.
Response(op, uid, status, rows) ==
    [op |-> op, by |-> uid, status |-> status, rows |-> rows]

(* --------------------------- arithmetic -------------------------------- *)

\* integer / integer in SQL truncates toward zero.
IntDiv(a, b) == IF a >= 0 THEN a \div b ELSE -((-a) \div b)

\* FLOOR((xp_points + 50) / 100) + 1, as the trigger computes it from the
\* row's xp_points before the update.
TriggerLevel(xp) == IntDiv(xp + XpAward, XpPerLevel) + 1

(* ------------------------ row-level security --------------------------- *)

\* The role that owns the tables (it runs the schema and seeds badges).  The
\* tables have ENABLE, not FORCE, ROW LEVEL SECURITY: the policies below bind
\* every authenticated principal and do not apply to the owner.
Owner == "owner"
BypassesRls(uid) == uid = Owner

\* "Users can insert own profile": WITH CHECK (auth.uid() = id)
UsersInsertCheck(uid, id) == uid = id

\* Mutant of UsersUpdateUsing: the policy lets every principal through.
UsersUpdateUsing_Anyone(uid, id) == TRUE

\* "Users can update own profile": USING (auth.uid() = id)
UsersUpdateUsing(uid, id) == uid = id

\* "Anyone can read active courses": USING (is_active = true)
CoursesSelectUsing(uid, row) == row.is_active

\* The course rows a query of uid sees.
VisibleCourses(uid) ==
    {c \in DOMAIN courses : BypassesRls(uid) \/ CoursesSelectUsing(uid, courses[c])}

\* Mutant of CoursesInsertCheck: a second-year profile is let through too.
CoursesInsertCheck_SecondYear(uid) ==
    /\ uid \in DOMAIN users
    /\ \/ users[uid].role \in {"mentor", "admin"}
       \/ users[uid].year_of_study >= SeniorYear

\* "Mentors can create courses": WITH CHECK (EXISTS (SELECT 1 FROM users
\* WHERE id = auth.uid() AND role IN ('mentor', 'admin')))
CoursesInsertCheck(uid) ==
    uid \in DOMAIN users /\ users[uid].role \in {"mentor", "admin"}

\* "Mentors can update own courses": USING (mentor_id = auth.uid())
CoursesUpdateUsing(uid, row) == row.mentor_id = uid

\* "Students can enroll in courses": WITH CHECK (student_id = auth.uid())
EnrollmentsInsertCheck(uid, student_id) == student_id = uid

\* Mutant of EnrollmentsUniqueViolation: the table has no UNIQUE constraint.
EnrollmentsUniqueViolation_Never(student_id, course_id) == FALSE

\* UNIQUE(student_id, course_id) of enrollments: a row with this pair exists.
EnrollmentsUniqueViolation(student_id, course_id) ==
    \E e \in enrollments : e.student_id = student_id /\ e.course_id = course_id

\* "Mentors can update enrollments for their courses": USING (EXISTS (SELECT 1
\* FROM courses WHERE id = course_id AND mentor_id = auth.uid())); the
\* sub-select reads courses through the courses SELECT policy.
EnrollmentsUpdateUsing(uid, course_id) ==
    \E c \in VisibleCourses(uid) : c = course_id /\ courses[c].mentor_id = uid

\* Mutant of ReviewsSelectUsing: only the review's student and mentor read it.
ReviewsSelectUsing_PartiesOnly(uid, row) ==
    row.student_id = uid \/ row.mentor_id = uid

\* "Anyone can read reviews": USING (true)
ReviewsSelectUsing(uid, row) == TRUE

\* Mutant of ReviewsInsertCheck: any enrollment will do, completed or not.
ReviewsInsertCheck_AnyEnrollment(uid, student_id, course_id) ==
    /\ student_id = uid
    /\ \E e \in enrollments : e.student_id = uid /\ e.course_id = course_id

\* "Students can create reviews for enrolled courses": WITH CHECK
\* (student_id = auth.uid() AND EXISTS (SELECT 1 FROM enrollments WHERE
\* student_id = auth.uid() AND course_id = reviews.course_id AND is_completed))
ReviewsInsertCheck(uid, student_id, course_id) ==
    /\ student_id = uid
    /\ \E e \in enrollments :
            e.student_id = uid /\ e.course_id = course_id /\ e.is_completed

\* Mutant of CertificatesInsertCheck: an INSERT policy lets every row through.
CertificatesInsertCheck_Permitted(uid, row) == TRUE

\* Mutant of CertificatesInsertCheck: a student may insert their own rows.
CertificatesInsertCheck_OwnRow(uid, row) == row.student_id = uid

\* certificates has row-level security enabled and only SELECT policies: an
\* INSERT by an authenticated principal passes no policy.
CertificatesInsertCheck(uid, row) == FALSE

\* The tables with row-level security enabled and no UPDATE policy, and the
\* ones with no DELETE policy: such a statement of an authenticated principal
\* sees no row.
TablesWithoutUpdatePolicy == {"reviews", "certificates", "mentor_requests"}
TablesWithoutDeletePolicy ==
    {"users", "courses", "enrollments", "reviews", "certificates",
     "mentor_requests", "learning_communities"}

\* "Students can create mentor requests": WITH CHECK (student_id = auth.uid())
MentorRequestsInsertCheck(uid, student_id) == student_id = uid

\* Mutant of SessionsAllUsing: the policy lets every principal through.
SessionsAllUsing_Anyone(uid, row) == TRUE

\* "Mentors can manage own sessions": FOR ALL USING (mentor_id = auth.uid());
\* it guards INSERT, UPDATE and DELETE, old rows and new.
SessionsAllUsing(uid, row) == row.mentor_id = uid

\* "Users can manage own projects": FOR ALL USING (user_id = auth.uid())
\* WITH CHECK (user_id = auth.uid())
UserProjectsAllUsing(uid, row) == row.user_id = uid

\* "Anyone can read active communities": USING (is_active = true)
CommunitiesSelectUsing(uid, row) == row.is_active

\* Mutant of CommunitiesInsertCheck: any profile will do, whatever its year.
CommunitiesInsertCheck_AnyProfile(uid) == uid \in DOMAIN users

\* "2nd year+ students can create communities": WITH CHECK (EXISTS (SELECT 1
\* FROM users WHERE id = auth.uid() AND year_of_study >= 2))
CommunitiesInsertCheck(uid) ==
    uid \in DOMAIN users /\ users[uid].year_of_study >= SeniorYear

\* "Community creators can update their communities":
\* USING (created_by = auth.uid())
CommunitiesUpdateUsing(uid, row) == row.created_by = uid

(* ------------------------------ Init ----------------------------------- *)

\* INSERT INTO badges (name, ...) VALUES ...: the rows the schema seeds.
SeededBadges ==
    {"Skill Starter", "Knowledge Seeker", "Certified Champ", "Self-Growth Hero",
     "Reviewer Pro", "First Flight", "Skill Provider", "Popular Mentor",
     "Verified Mentor", "Pro Mentor"}

Init ==
    /\ users = <<>>
    /\ courses = <<>>
    /\ enrollments = {}
    /\ reviews = {}
    /\ certificates = {}
    /\ mentor_requests = <<>>
    /\ sessions = <<>>
    /\ learning_communities = <<>>
    /\ user_projects = <<>>
    /\ community_members = {}
    /\ community_resources = {}
    /\ is_member = [u \in Users |-> {}]
    /\ accounts = {}
    /\ signUp = [u \in Users |-> "idle"]
    /\ user = NULL
    /\ profile = NULL
    /\ loading = TRUE
    /\ mounted = TRUE
    /\ getSession = "pending"
    /\ fetches = {}
    /\ badges = SeededBadges
    /\ user_badges = {}
    /\ resp = Response("none", "nobody", "ok", 0)

(* --------------------- the completion trigger -------------------------- *)

\* Mutant of AwardXp: the UPDATE has no WHERE clause, so every row the caller
\* may update is awarded.
AwardXp_AllRows(uid, student_id, us) ==
    [id \in DOMAIN us |->
        IF BypassesRls(uid) \/ UsersUpdateUsing(uid, id)
        THEN [us[id] EXCEPT !.xp_points = @ + XpAward,
                            !.level_number = TriggerLevel(us[id].xp_points)]
        ELSE us[id]]

\* UPDATE users SET xp_points = xp_points + 50, level_number = FLOOR((xp_points
\* + 50) / 100) + 1 WHERE id = NEW.student_id, run as uid: the users UPDATE
\* policy filters the rows it touches.
AwardXp(uid, student_id, us) ==
    IF /\ student_id \in DOMAIN us
       /\ BypassesRls(uid) \/ UsersUpdateUsing(uid, student_id)
    THEN [us EXCEPT ![student_id] =
            [@ EXCEPT !.xp_points = @ + XpAward,
                      !.level_number = TriggerLevel(us[student_id].xp_points)]]
    ELSE us

\* INSERT INTO certificates (...) SELECT NEW.student_id, NEW.course_id,
\* c.mentor_id, 'CERT-' || ... FROM courses c WHERE c.id = NEW.course_id,
\* run as uid: the rows the SELECT yields.
NewCertificates(uid, student_id, course_id, cert_id) ==
    {[student_id |-> student_id, course_id |-> course_id,
      mentor_id |-> courses[c].mentor_id, certificate_id |-> cert_id] :
        c \in {v \in VisibleCourses(uid) : v = course_id}}

\* Mutant of CompletionEdge: gated on the post-state alone.
CompletionEdge_PostStateOnly(old_completed, new_completed) ==
    new_completed = TRUE

\* The IF of award_completion_xp: the pipeline runs on the false -> true edge.
CompletionEdge(old_completed, new_completed) ==
    new_completed = TRUE /\ old_completed = FALSE

\* award_completion_xp() for one updated row, run as uid.  The result is the
\* status of the statement and the users and certificates tables it leaves.
award_completion_xp(uid, student_id, course_id, old_completed, new_completed, cert_id) ==
    IF ~CompletionEdge(old_completed, new_completed)
    THEN [status |-> "ok", users |-> users, certificates |-> certificates]
    ELSE LET us == AwardXp(uid, student_id, users)
             new == NewCertificates(uid, student_id, course_id, cert_id)
         IN  IF \E row \in new :
                    ~(BypassesRls(uid) \/ CertificatesInsertCheck(uid, row))
             THEN [status |-> "rls", users |-> users, certificates |-> certificates]
             ELSE IF \E row \in new : \E old \in certificates :
                        old.certificate_id = row.certificate_id
             THEN [status |-> "constraint", users |-> users,
                   certificates |-> certificates]
             ELSE [status |-> "ok", users |-> us,
                   certificates |-> certificates \cup new]

(* ----------------------------- requests -------------------------------- *)

\* INSERT INTO users (id, role, year_of_study, xp_points, level_number, ...)
\* by uid.
InsertUser(uid, id, role, year, xp, level) ==
    IF ~UsersInsertCheck(uid, id)
    THEN /\ resp' = Response("insert_user", uid, "rls", 0)
         /\ UNCHANGED store
    ELSE IF id \in DOMAIN users
    THEN /\ resp' = Response("insert_user", uid, "constraint", 0)
         /\ UNCHANGED store
    ELSE /\ users' = users @@ (id :> [role |-> role, year_of_study |-> year,
                                      xp_points |-> xp, level_number |-> level])
         /\ resp' = Response("insert_user", uid, "ok", 1)
         /\ UNCHANGED <<courses, enrollments, reviews, certificates, side, beside>>

\* The value of a column after an update whose SET list is cols.
Updated(cols, col, old, val) == IF col \in cols THEN val ELSE old

\* UPDATE users SET <patch.cols> WHERE id = id by uid (updateProfile, whose
\* updates are a Partial<UserProfile>, with id = user.id).
UpdateUser(uid, id, patch) ==
    IF id \in DOMAIN users /\ UsersUpdateUsing(uid, id)
    THEN /\ users' = [users EXCEPT ![id] =
                [role |-> Updated(patch.cols, "role", @.role, patch.role),
                 year_of_study |-> Updated(patch.cols, "year_of_study",
                                           @.year_of_study, patch.year_of_study),
                 xp_points |-> Updated(patch.cols, "xp_points",
                                       @.xp_points, patch.xp_points),
                 level_number |-> Updated(patch.cols, "level_number",
                                          @.level_number, patch.level_number)]]
         /\ resp' = Response("update_user", uid, "ok", 1)
         /\ UNCHANGED <<courses, enrollments, reviews, certificates, side, beside>>
    ELSE /\ resp' = Response("update_user", uid, "ok", 0)
         /\ UNCHANGED store

\* INSERT INTO courses (mentor_id, is_active, ...) by uid; id is the fresh key.
InsertCourse(uid, id, mentor_id, is_active) ==
    /\ id \notin DOMAIN courses
    /\ IF ~CoursesInsertCheck(uid)
       THEN /\ resp' = Response("insert_course", uid, "rls", 0)
            /\ UNCHANGED store
       ELSE IF mentor_id \notin DOMAIN users
       THEN /\ resp' = Response("insert_course", uid, "constraint", 0)
            /\ UNCHANGED store
       ELSE /\ courses' = courses @@ (id :> [mentor_id |-> mentor_id,
                                             is_active |-> is_active])
            /\ resp' = Response("insert_course", uid, "ok", 1)
            /\ UNCHANGED <<users, enrollments, reviews, certificates, side, beside>>

\* UPDATE courses SET is_active = ..., mentor_id = ... WHERE id = id by uid.
\* The existing row passes the SELECT and UPDATE policies or is not touched;
\* the new row passes them or the statement fails.
UpdateCourse(uid, id, mentor_id, is_active) ==
    IF /\ id \in VisibleCourses(uid)
       /\ CoursesUpdateUsing(uid, courses[id])
    THEN LET new == [mentor_id |-> mentor_id, is_active |-> is_active]
         IN  IF ~(CoursesUpdateUsing(uid, new) /\ CoursesSelectUsing(uid, new))
             THEN /\ resp' = Response("update_course", uid, "rls", 0)
                  /\ UNCHANGED store
             ELSE /\ courses' = [courses EXCEPT ![id] = new]
                  /\ resp' = Response("update_course", uid, "ok", 1)
                  /\ UNCHANGED <<users, enrollments, reviews, certificates, side, beside>>
    ELSE /\ resp' = Response("update_course", uid, "ok", 0)
         /\ UNCHANGED store

\* fetchCourses: SELECT ... FROM courses WHERE is_active = true by uid, the
\* rows the SELECT policy lets through.
SelectCourses(uid) == {c \in VisibleCourses(uid) : courses[c].is_active = TRUE}

ReadCourses(uid) ==
    /\ resp' = Response("select_courses", uid, "ok", Cardinality(SelectCourses(uid)))
    /\ UNCHANGED store

\* The primary key gen_random_uuid() gives a new enrollments row: a value no
\* row of the table has.
NewEnrollmentId(student_id, course_id) ==
    <<student_id, course_id,
      Cardinality({e \in enrollments : /\ e.student_id = student_id
                                       /\ e.course_id = course_id}) + 1>>

\* INSERT INTO enrollments (student_id, course_id, is_completed, completed_at)
\* by uid (handleEnroll names student_id and course_id only: is_completed is
\* false and completed_at NULL by default).
InsertEnrollment(uid, student_id, course_id, is_completed, completed_at) ==
    IF ~EnrollmentsInsertCheck(uid, student_id)
    THEN /\ resp' = Response("insert_enrollment", uid, "rls", 0)
         /\ UNCHANGED store
    ELSE IF \/ student_id \notin DOMAIN users
            \/ course_id \notin DOMAIN courses
            \/ EnrollmentsUniqueViolation(student_id, course_id)
    THEN /\ resp' = Response("insert_enrollment", uid, "constraint", 0)
         /\ UNCHANGED store
    ELSE /\ enrollments' = enrollments \cup
                {[id |-> NewEnrollmentId(student_id, course_id),
                  student_id |-> student_id, course_id |-> course_id,
                  is_completed |-> is_completed, completed_at |-> completed_at]}
         /\ resp' = Response("insert_enrollment", uid, "ok", 1)
         /\ UNCHANGED <<users, courses, reviews, certificates, side, beside>>

\* UPDATE enrollments SET is_completed = ... WHERE id = id by uid, with the
\* AFTER UPDATE trigger enrollment_completion_trigger run in the same
\* statement.  The row passes the UPDATE policy or is not touched.
UpdateEnrollment(uid, id, is_completed, cert_id) ==
    LET rows == {e \in enrollments :
                    /\ e.id = id
                    /\ BypassesRls(uid) \/ EnrollmentsUpdateUsing(uid, e.course_id)}
    IN  IF rows # {}
        THEN LET old == CHOOSE e \in rows : TRUE
                 out == award_completion_xp(uid, old.student_id, old.course_id,
                            old.is_completed, is_completed, cert_id)
             IN  IF out.status # "ok"
                 THEN /\ resp' = Response("update_enrollment", uid, out.status, 0)
                      /\ UNCHANGED store
                 ELSE /\ enrollments' = (enrollments \ {old}) \cup
                            {[old EXCEPT !.is_completed = is_completed]}
                      /\ users' = out.users
                      /\ certificates' = out.certificates
                      /\ resp' = Response("update_enrollment", uid, "ok", 1)
                      /\ UNCHANGED <<courses, reviews, side, beside>>
        ELSE /\ resp' = Response("update_enrollment", uid, "ok", 0)
             /\ UNCHANGED store

\* INSERT INTO reviews (student_id, course_id, mentor_id, rating) by uid.
InsertReview(uid, student_id, course_id, mentor_id, rating) ==
    /\ Cardinality(reviews) < MaxReviews
    /\ IF ~ReviewsInsertCheck(uid, student_id, course_id)
       THEN /\ resp' = Response("insert_review", uid, "rls", 0)
            /\ UNCHANGED store
       ELSE IF \/ rating < MinRating
               \/ rating > MaxRating
               \/ mentor_id \notin DOMAIN users
       THEN /\ resp' = Response("insert_review", uid, "constraint", 0)
            /\ UNCHANGED store
       ELSE /\ reviews' = reviews \cup
                   {[id |-> Cardinality(reviews) + 1, student_id |-> student_id,
                     course_id |-> course_id, mentor_id |-> mentor_id]}
            /\ resp' = Response("insert_review", uid, "ok", 1)
            /\ UNCHANGED <<users, courses, enrollments, certificates, side, beside>>

\* SELECT * FROM reviews by uid: the rows the SELECT policy lets through.
SelectReviews(uid) == {r \in reviews : ReviewsSelectUsing(uid, r)}

ReadReviews(uid) ==
    /\ resp' = Response("select_reviews", uid, "ok", Cardinality(SelectReviews(uid)))
    /\ UNCHANGED store

\* INSERT INTO certificates (student_id, course_id, mentor_id, certificate_id)
\* sent by uid itself, outside the trigger.
InsertCertificate(uid, student_id, course_id, mentor_id, cert_id) ==
    LET row == [student_id |-> student_id, course_id |-> course_id,
                mentor_id |-> mentor_id, certificate_id |-> cert_id]
    IN  IF ~CertificatesInsertCheck(uid, row)
        THEN /\ resp' = Response("insert_certificate", uid, "rls", 0)
             /\ UNCHANGED store
        ELSE IF \/ student_id \notin DOMAIN users
                \/ mentor_id \notin DOMAIN users
                \/ course_id \notin DOMAIN courses
                \/ \E old \in certificates : old.certificate_id = cert_id
        THEN /\ resp' = Response("insert_certificate", uid, "constraint", 0)
             /\ UNCHANGED store
        ELSE /\ certificates' = certificates \cup {row}
             /\ resp' = Response("insert_certificate", uid, "ok", 1)
             /\ UNCHANGED <<users, courses, enrollments, reviews, side, beside>>

\* UPDATE <table> SET ... by uid on a table that has no UPDATE policy: no row
\* passes, the statement completes having changed none.
UpdateWithoutPolicy(uid, table) ==
    /\ table \in TablesWithoutUpdatePolicy
    /\ resp' = Response("update", uid, "ok", 0)
    /\ UNCHANGED store

\* DELETE FROM <table> by uid on a table that has no DELETE policy: no row
\* passes, the statement completes having removed none.
DeleteWithoutPolicy(uid, table) ==
    /\ table \in TablesWithoutDeletePolicy
    /\ resp' = Response("delete", uid, "ok", 0)
    /\ UNCHANGED store

\* INSERT INTO mentor_requests (student_id, status, reviewed_at) by uid; id
\* is the fresh key.
InsertMentorRequest(uid, id, student_id, status, reviewed_at) ==
    /\ id \notin DOMAIN mentor_requests
    /\ IF ~MentorRequestsInsertCheck(uid, student_id)
       THEN /\ resp' = Response("insert_mentor_request", uid, "rls", 0)
            /\ UNCHANGED store
       ELSE IF student_id \notin DOMAIN users \/ status \notin RequestStatuses
       THEN /\ resp' = Response("insert_mentor_request", uid, "constraint", 0)
            /\ UNCHANGED store
       ELSE /\ mentor_requests' = mentor_requests @@
                    (id :> [student_id |-> student_id, status |-> status,
                            reviewed_at |-> reviewed_at])
            /\ resp' = Response("insert_mentor_request", uid, "ok", 1)
            /\ UNCHANGED <<core, sessions, learning_communities, user_projects, beside>>

\* INSERT INTO sessions (mentor_id, ...) by uid, course_id left NULL; id is
\* the fresh key.
InsertSession(uid, id, mentor_id) ==
    /\ id \notin DOMAIN sessions
    /\ IF ~SessionsAllUsing(uid, [mentor_id |-> mentor_id])
       THEN /\ resp' = Response("insert_session", uid, "rls", 0)
            /\ UNCHANGED store
       ELSE IF mentor_id \notin DOMAIN users
       THEN /\ resp' = Response("insert_session", uid, "constraint", 0)
            /\ UNCHANGED store
       ELSE /\ sessions' = sessions @@ (id :> [mentor_id |-> mentor_id])
            /\ resp' = Response("insert_session", uid, "ok", 1)
            /\ UNCHANGED <<core, mentor_requests, learning_communities,
                           user_projects, beside>>

\* DELETE FROM sessions WHERE id = id by uid.
DeleteSession(uid, id) ==
    IF id \in DOMAIN sessions /\ SessionsAllUsing(uid, sessions[id])
    THEN /\ sessions' = [k \in DOMAIN sessions \ {id} |-> sessions[k]]
         /\ resp' = Response("delete_session", uid, "ok", 1)
         /\ UNCHANGED <<core, mentor_requests, learning_communities,
                        user_projects, beside>>
    ELSE /\ resp' = Response("delete_session", uid, "ok", 0)
         /\ UNCHANGED store

\* INSERT INTO user_projects (user_id, ...) by uid; id is the fresh key.
InsertProject(uid, id, user_id) ==
    /\ id \notin DOMAIN user_projects
    /\ IF ~UserProjectsAllUsing(uid, [user_id |-> user_id])
       THEN /\ resp' = Response("insert_project", uid, "rls", 0)
            /\ UNCHANGED store
       ELSE IF user_id \notin DOMAIN users
       THEN /\ resp' = Response("insert_project", uid, "constraint", 0)
            /\ UNCHANGED store
       ELSE /\ user_projects' = user_projects @@ (id :> [user_id |-> user_id])
            /\ resp' = Response("insert_project", uid, "ok", 1)
            /\ UNCHANGED <<core, mentor_requests, sessions,
                           learning_communities, beside>>

\* DELETE FROM user_projects WHERE id = id by uid.
DeleteProject(uid, id) ==
    IF id \in DOMAIN user_projects /\ UserProjectsAllUsing(uid, user_projects[id])
    THEN /\ user_projects' = [k \in DOMAIN user_projects \ {id} |-> user_projects[k]]
         /\ resp' = Response("delete_project", uid, "ok", 1)
         /\ UNCHANGED <<core, mentor_requests, sessions, learning_communities, beside>>
    ELSE /\ resp' = Response("delete_project", uid, "ok", 0)
         /\ UNCHANGED store

\* handleCreateCommunity: INSERT INTO learning_communities (created_by,
\* is_active, ...) ... RETURNING * by uid; id is the fresh key.  The new row
\* passes the INSERT policy and, being returned, the SELECT policy, or the
\* statement fails.
InsertCommunity(uid, id, created_by, is_active) ==
    /\ id \notin DOMAIN learning_communities
    /\ LET new == [created_by |-> created_by, is_active |-> is_active]
       IN  IF ~(CommunitiesInsertCheck(uid) /\ CommunitiesSelectUsing(uid, new))
           THEN /\ resp' = Response("insert_community", uid, "rls", 0)
                /\ UNCHANGED store
           ELSE IF created_by \notin DOMAIN users
           THEN /\ resp' = Response("insert_community", uid, "constraint", 0)
                /\ UNCHANGED store
           ELSE /\ learning_communities' = learning_communities @@ (id :> new)
                /\ resp' = Response("insert_community", uid, "ok", 1)
                /\ UNCHANGED <<core, mentor_requests, sessions, user_projects, beside>>

\* UPDATE learning_communities SET created_by = ..., is_active = ... WHERE
\* id = id by uid.  The existing row passes the SELECT and UPDATE policies or
\* is not touched; the new row passes them or the statement fails.
UpdateCommunity(uid, id, created_by, is_active) ==
    IF /\ id \in DOMAIN learning_communities
       /\ CommunitiesSelectUsing(uid, learning_communities[id])
       /\ CommunitiesUpdateUsing(uid, learning_communities[id])
    THEN LET new == [created_by |-> created_by, is_active |-> is_active]
         IN  IF ~(CommunitiesUpdateUsing(uid, new) /\ CommunitiesSelectUsing(uid, new))
             THEN /\ resp' = Response("update_community", uid, "rls", 0)
                  /\ UNCHANGED store
             ELSE /\ learning_communities' =
                        [learning_communities EXCEPT ![id] = new]
                  /\ resp' = Response("update_community", uid, "ok", 1)
                  /\ UNCHANGED <<core, mentor_requests, sessions, user_projects, beside>>
    ELSE /\ resp' = Response("update_community", uid, "ok", 0)
         /\ UNCHANGED store

(* ------------------------------- Next ---------------------------------- *)

\* The progression core: profiles with their role, experience and level,
\* courses, enrollments and the completion trigger.  Profiles are written the
\* way signUp and updateProfile address them, with id = the caller's own id;
\* year_of_study and completed_at stay at the column defaults.
Next ==
    \/ \E uid \in Users, role \in Roles, xp \in XpInputs, level \in LevelInputs :
            InsertUser(uid, uid, role, DefaultYear, xp, level)
    \/ \E uid \in Users, patch \in UserPatches :
            UpdateUser(uid, uid, patch)
    \/ \E uid \in Users, id \in Courses, mentor_id \in Users,
          is_active \in BOOLEAN :
            InsertCourse(uid, id, mentor_id, is_active)
    \/ \E uid \in Users, id \in Courses, mentor_id \in Users,
          is_active \in BOOLEAN :
            UpdateCourse(uid, id, mentor_id, is_active)
    \/ \E uid \in Users, student_id \in Users, course_id \in Courses,
          is_completed \in BOOLEAN :
            InsertEnrollment(uid, student_id, course_id, is_completed, NULL)
    \/ \E uid \in Users, e \in enrollments, is_completed \in BOOLEAN,
          cert_id \in CertIds :
            UpdateEnrollment(uid, e.id, is_completed, cert_id)

Spec == Init /\ [][Next]_vars

\* The store with its reviews: every request above and the review requests,
\* with profile rows addressed by any id and written in their role column
\* only (year, experience and level stay at the column defaults).
NextReviews ==
    \/ \E uid \in Users, id \in Users, role \in Roles :
            InsertUser(uid, id, role, DefaultYear, DefaultXp, DefaultLevel)
    \/ \E uid \in Users, id \in Users, patch \in UserPatchesOver({"role"}) :
            UpdateUser(uid, id, patch)
    \/ \E uid \in Users, id \in Courses, mentor_id \in Users,
          is_active \in BOOLEAN :
            InsertCourse(uid, id, mentor_id, is_active)
    \/ \E uid \in Users, id \in Courses, mentor_id \in Users,
          is_active \in BOOLEAN :
            UpdateCourse(uid, id, mentor_id, is_active)
    \/ \E uid \in Users, student_id \in Users, course_id \in Courses,
          is_completed \in BOOLEAN :
            InsertEnrollment(uid, student_id, course_id, is_completed, NULL)
    \/ \E uid \in Users, e \in enrollments, is_completed \in BOOLEAN,
          cert_id \in CertIds :
            UpdateEnrollment(uid, e.id, is_completed, cert_id)
    \/ \E uid \in Users, student_id \in Users, course_id \in Courses,
          mentor_id \in Users, rating \in RatingInputs :
            InsertReview(uid, student_id, course_id, mentor_id, rating)
    \/ \E uid \in Users : ReadReviews(uid)

SpecReviews == Init /\ [][NextReviews]_vars

\* Seniority: profiles with their role and year_of_study, courses and the
\* course list, and learning communities.
NextCommunity ==
    \/ \E uid \in Users, role \in Roles, year \in YearInputs :
            InsertUser(uid, uid, role, year, DefaultXp, DefaultLevel)
    \/ \E uid \in Users, patch \in UserPatchesOver(SeniorityColumns) :
            UpdateUser(uid, uid, patch)
    \/ \E uid \in Users, id \in Courses, mentor_id \in Users,
          is_active \in BOOLEAN :
            InsertCourse(uid, id, mentor_id, is_active)
    \/ \E uid \in Users, id \in Courses, mentor_id \in Users,
          is_active \in BOOLEAN :
            UpdateCourse(uid, id, mentor_id, is_active)
    \/ \E uid \in Users : ReadCourses(uid)
    \/ \E uid \in Users, id \in CommunityIds, created_by \in Users,
          is_active \in BOOLEAN :
            InsertCommunity(uid, id, created_by, is_active)
    \/ \E uid \in Users, id \in CommunityIds, created_by \in Users,
          is_active \in BOOLEAN :
            UpdateCommunity(uid, id, created_by, is_active)

SpecCommunity == Init /\ [][NextCommunity]_vars

\* Enrollments with every column a client may write, and the requests on
\* certificates that a principal sends itself.
NextEnrollments ==
    \/ \E uid \in Users, role \in Roles :
            InsertUser(uid, uid, role, DefaultYear, DefaultXp, DefaultLevel)
    \/ \E uid \in Users, id \in Courses, mentor_id \in Users,
          is_active \in BOOLEAN :
            InsertCourse(uid, id, mentor_id, is_active)
    \/ \E uid \in Users, student_id \in Users, course_id \in Courses,
          is_completed \in BOOLEAN, completed_at \in Timestamps :
            InsertEnrollment(uid, student_id, course_id, is_completed, completed_at)
    \/ \E uid \in Users, e \in enrollments, is_completed \in BOOLEAN,
          cert_id \in CertIds :
            UpdateEnrollment(uid, e.id, is_completed, cert_id)
    \/ \E uid \in Users, student_id \in Users, course_id \in Courses,
          mentor_id \in Users, cert_id \in CertIds :
            InsertCertificate(uid, student_id, course_id, mentor_id, cert_id)
    \/ \E uid \in Users : UpdateWithoutPolicy(uid, "certificates")

SpecEnrollments == Init /\ [][NextEnrollments]_vars

\* The records beside the progression core: mentor requests, sessions and
\* user projects, and the deletes a principal may send.
NextRecords ==
    \/ \E uid \in Users :
            InsertUser(uid, uid, DefaultRole, DefaultYear, DefaultXp, DefaultLevel)
    \/ \E uid \in Users, id \in RequestIds, student_id \in Users,
          status \in RequestStatuses, reviewed_at \in Timestamps :
            InsertMentorRequest(uid, id, student_id, status, reviewed_at)
    \/ \E uid \in Users : UpdateWithoutPolicy(uid, "mentor_requests")
    \/ \E uid \in Users, id \in SessionIds, mentor_id \in Users :
            InsertSession(uid, id, mentor_id)
    \/ \E uid \in Users, id \in SessionIds : DeleteSession(uid, id)
    \/ \E uid \in Users, id \in ProjectIds, user_id \in Users :
            InsertProject(uid, id, user_id)
    \/ \E uid \in Users, id \in ProjectIds : DeleteProject(uid, id)
    \/ \E uid \in Users, table \in TablesWithoutDeletePolicy :
            DeleteWithoutPolicy(uid, table)

SpecRecords == Init /\ [][NextRecords]_vars

(* ------------------------------ claims --------------------------------- *)

\* floor(xp / 100) + 1, never below 1: the level the data model prescribes.
Max(a, b) == IF a >= b THEN a ELSE b
PrescribedLevel(xp) == Max(1, (xp \div XpPerLevel) + 1)

\* The requests that ask for the completion of the enrollment row id
\* (UPDATE ... SET is_completed = true) on behalf of uid.
CompletionRequest(uid, id) ==
    \E cert_id \in CertIds : UpdateEnrollment(uid, id, TRUE, cert_id)

\* The enrollment rows of a table with primary key id that are completed.
CompletedIn(enr, id) == \E e \in enr : e.id = id /\ e.is_completed

\* The certificates issued for the enrollment of student_id in course_id.
CertificatesOf(certs, student_id, course_id) ==
    {x \in certs : x.student_id = student_id /\ x.course_id = course_id}

\* C1: in every reachable state every User row has
\* level_number = max(1, floor(xp_points / 100) + 1).
C1_LevelInvariant ==
    \A id \in DOMAIN users :
        users[id].level_number = PrescribedLevel(users[id].xp_points)

\* C2: completion requests on an enrollment, in whatever order they are
\* served, award exactly once: the request served while the enrollment is not
\* completed leaves it completed with 50 more xp_points for the student and
\* one more Certificate row, and a request served after it awards nothing.
C2_ExactlyOneAward ==
    [][resp'.op = "update_enrollment" =>
       \A uid \in {resp'.by}, e \in enrollments :
        (/\ CompletionRequest(uid, e.id)
         /\ EnrollmentsUpdateUsing(uid, e.course_id))
        => /\ CompletedIn(enrollments', e.id)
           /\ IF e.is_completed
              THEN /\ users'[e.student_id].xp_points = users[e.student_id].xp_points
                   /\ Cardinality(certificates') = Cardinality(certificates)
              ELSE /\ users'[e.student_id].xp_points =
                        users[e.student_id].xp_points + XpAward
                   /\ Cardinality(certificates') = Cardinality(certificates) + 1]_vars

\* C3: a completion request on an enrollment that is already completed is
\* served (one row updated, no error) and leaves every xp_points, every
\* level_number and the Certificate rows as they were.
C3_Idempotent ==
    [][resp'.op = "update_enrollment" =>
       \A uid \in {resp'.by}, e \in enrollments :
        (/\ CompletionRequest(uid, e.id)
         /\ e.is_completed
         /\ EnrollmentsUpdateUsing(uid, e.course_id))
        => /\ resp'.status = "ok" /\ resp'.rows = 1
           /\ users' = users
           /\ certificates' = certificates
           /\ CompletedIn(enrollments', e.id)]_vars

\* C3 witness: the mentor of a course was served a completion request while
\* every enrollment was already completed.
C3_Witness ==
    /\ resp.op = "update_enrollment" /\ resp.status = "ok" /\ resp.rows = 1
    /\ enrollments # {}
    /\ \A e \in enrollments :
            /\ e.is_completed
            /\ EnrollmentsUpdateUsing(resp.by, e.course_id)

\* C4: once an enrollment has is_completed = true it keeps it, whatever
\* request is served next.
C4_CompletedIsTerminal ==
    [][\A e \in enrollments :
        e.is_completed => CompletedIn(enrollments', e.id)]_vars

\* C5: a completion request served on a not completed enrollment of student S
\* (xp_points = x) in course C leaves S with xp_points = x + 50 and
\* level_number = floor((x + 50) / 100) + 1, and adds exactly one Certificate
\* row, which names S, C and C's mentor_id.
C5_AwardValues ==
    [][resp'.op = "update_enrollment" =>
       \A uid \in {resp'.by}, e \in enrollments :
        (/\ CompletionRequest(uid, e.id)
         /\ ~e.is_completed
         /\ EnrollmentsUpdateUsing(uid, e.course_id))
        => /\ users'[e.student_id].xp_points =
                users[e.student_id].xp_points + XpAward
           /\ users'[e.student_id].level_number =
                ((users[e.student_id].xp_points + XpAward) \div XpPerLevel) + 1
           /\ \E cert \in certificates' \ certificates :
                /\ certificates' = certificates \cup {cert}
                /\ cert.student_id = e.student_id
                /\ cert.course_id = e.course_id
                /\ cert.mentor_id = courses[e.course_id].mentor_id]_vars

C7_MentorCompletionCommits ==
    [][resp'.op = "update_enrollment" =>
       \A uid \in {resp'.by}, e \in enrollments :
        (/\ CompletionRequest(uid, e.id)
         /\ ~e.is_completed
         /\ courses[e.course_id].mentor_id = uid
         /\ courses[e.course_id].is_active
         /\ uid # e.student_id)
        => /\ resp'.status = "ok"
           /\ CompletedIn(enrollments', e.id)
           /\ users'[e.student_id].xp_points =
                users[e.student_id].xp_points + XpAward
           /\ CertificatesOf(certificates', e.student_id, e.course_id) # {}]_vars

\* C8: a Review insert by principal S for course C with a well-formed row
\* (rating within 1..5, mentor_id an existing user) succeeds if and only if an
\* Enrollment row (S, C) with is_completed = true exists when it is served;
\* without one the insert is denied and adds no row.
C8_ReviewGating ==
    [][resp'.op = "insert_review" =>
       \A uid \in {resp'.by}, student_id \in Users, course_id \in Courses,
          mentor_id \in Users, rating \in RatingInputs :
        InsertReview(uid, student_id, course_id, mentor_id, rating)
        => LET completed == \E e \in enrollments :
                                /\ e.student_id = student_id
                                /\ e.course_id = course_id
                                /\ e.is_completed
               wellformed == /\ rating >= MinRating /\ rating <= MaxRating
                             /\ mentor_id \in DOMAIN users
           IN  IF student_id = uid /\ completed
               THEN IF wellformed
                    THEN /\ resp'.status = "ok"
                         /\ Cardinality(reviews') = Cardinality(reviews) + 1
                    ELSE resp'.status = "constraint" /\ reviews' = reviews
               ELSE resp'.status = "rls" /\ reviews' = reviews]_vars

\* C8 witness: a student's Review insert succeeded.
C8_Witness ==
    /\ resp.op = "insert_review" /\ resp.status = "ok"
    /\ \E r \in reviews : r.student_id = resp.by

\* The steps that serve a create the acting principal's predicate denies.
DeniedCreate(uid) ==
    \/ \E id \in Users \ {uid}, role \in Roles :
            InsertUser(uid, id, role, DefaultYear, DefaultXp, DefaultLevel)
    \/ /\ ~(uid \in DOMAIN users /\ users[uid].role \in {"mentor", "admin"})
       /\ \E id \in Courses, mentor_id \in Users, is_active \in BOOLEAN :
            InsertCourse(uid, id, mentor_id, is_active)
    \/ \E student_id \in Users \ {uid}, course_id \in Courses,
          is_completed \in BOOLEAN :
            InsertEnrollment(uid, student_id, course_id, is_completed, NULL)
    \/ \E student_id \in Users, course_id \in Courses, mentor_id \in Users,
          rating \in RatingInputs :
            /\ \/ student_id # uid
               \/ ~\E e \in enrollments : /\ e.student_id = student_id
                                          /\ e.course_id = course_id
                                          /\ e.is_completed
            /\ InsertReview(uid, student_id, course_id, mentor_id, rating)

\* The steps that serve an update of an existing row the acting principal's
\* predicate denies.
DeniedUpdate(uid) ==
    \/ \E id \in DOMAIN users \ {uid}, patch \in UserPatchesOver({"role"}) :
            UpdateUser(uid, id, patch)
    \/ \E id \in DOMAIN courses, mentor_id \in Users, is_active \in BOOLEAN :
            /\ courses[id].mentor_id # uid
            /\ UpdateCourse(uid, id, mentor_id, is_active)
    \/ \E e \in enrollments, is_completed \in BOOLEAN, cert_id \in CertIds :
            /\ courses[e.course_id].mentor_id # uid
            /\ UpdateEnrollment(uid, e.id, is_completed, cert_id)

Related(uid, r) == r.student_id = uid \/ r.mentor_id = uid

\* C10: a read of reviews returns no row to a principal unrelated to it.
C10_UnrelatedReadsNothing ==
    [][resp'.op = "select_reviews" =>
       \A uid \in {resp'.by} :
        ReadReviews(uid) =>
            resp'.rows = Cardinality({r \in reviews : Related(uid, r)})]_vars

\* C10 as amended: a read of reviews by any principal, related to them or
\* not, returns every Review row.
C10_AnyoneReadsAllReviews ==
    [][resp'.op = "select_reviews" =>
       \A uid \in {resp'.by} :
        ReadReviews(uid) => resp'.rows = Cardinality(reviews)]_vars

\* C10 witness: a principal was returned reviews none of which it is related to.
C10_Witness ==
    /\ resp.op = "select_reviews" /\ resp.rows >= 1
    /\ reviews # {}
    /\ \A r \in reviews : ~Related(resp.by, r)

\* C11: course visibility follows is_active.  A course created with
\* is_active = true is in the course list every principal reads; the update of
\* its mentor that sets is_active = false is served, and after it the course is
\* in no principal's course list.
C11_VisibilityFollowsActive ==
    [][/\ (resp'.op = "insert_course" /\ resp'.status = "ok") =>
            \A id \in DOMAIN courses' \ DOMAIN courses :
                courses'[id].is_active => \A s \in Users : id \in SelectCourses(s)'
       /\ resp'.op = "update_course" =>
            \A uid \in {resp'.by}, id \in DOMAIN courses :
                (/\ UpdateCourse(uid, id, uid, FALSE)
                 /\ courses[id].mentor_id = uid
                 /\ courses[id].is_active)
                => /\ resp'.status = "ok"
                   /\ \A s \in Users : id \notin SelectCourses(s)']_vars

C13_CourseMentorIsMentor ==
    \A id \in DOMAIN courses :
        /\ courses[id].mentor_id \in DOMAIN users
        /\ users[courses[id].mentor_id].role \in {"mentor", "admin"}

\* C14: a LearningCommunity insert by a principal whose year_of_study is below
\* 2 when it is served is denied and adds no community row.
C14_JuniorCannotCreateCommunity ==
    [][resp'.op = "insert_community" =>
       \A uid \in {resp'.by}, id \in CommunityIds, created_by \in Users,
          is_active \in BOOLEAN :
        (/\ InsertCommunity(uid, id, created_by, is_active)
         /\ uid \in DOMAIN users
         /\ users[uid].year_of_study < SeniorYear)
        => /\ resp'.status = "rls"
           /\ learning_communities' = learning_communities]_vars

\* C14 witness: a principal of the first year was denied a LearningCommunity
\* insert of an active community.
C14_Witness ==
    /\ resp.op = "insert_community" /\ resp.status = "rls"
    /\ resp.by \in DOMAIN users
    /\ users[resp.by].year_of_study < SeniorYear
    /\ learning_communities = <<>>

\* C15: in every reachable state the user that each LearningCommunity row's
\* created_by references has year_of_study >= 2.
C15_CreatorIsSenior ==
    \A id \in DOMAIN learning_communities :
        /\ learning_communities[id].created_by \in DOMAIN users
        /\ users[learning_communities[id].created_by].year_of_study >= SeniorYear

\* The primary keys of the rows of an enrollments table.
EnrollmentIds(enr) == {e.id : e \in enr}

\* C16: completed_at goes with the completion of the row: every completed
\* enrollment has completed_at set, and a row that enters the table not
\* completed has it unset.
C16_CompletedAtIffCompleted ==
    [][\A e \in enrollments' :
        /\ e.is_completed => e.completed_at # NULL
        /\ (e.id \notin EnrollmentIds(enrollments) /\ ~e.is_completed)
                => e.completed_at = NULL]_vars

\* C17: at most one Enrollment row exists per (student_id, course_id), and an
\* enroll request of a student for a course they already have a row for fails
\* with a constraint violation and leaves the store unchanged.
C17_EnrollOnce ==
    [][/\ \A e1, e2 \in enrollments' :
            (e1.student_id = e2.student_id /\ e1.course_id = e2.course_id)
                => e1 = e2
       /\ resp'.op = "insert_enrollment" =>
            \A uid \in {resp'.by}, course_id \in Courses,
               is_completed \in BOOLEAN, completed_at \in Timestamps :
                (/\ InsertEnrollment(uid, uid, course_id, is_completed, completed_at)
                 /\ \E e \in enrollments :
                        e.student_id = uid /\ e.course_id = course_id)
                => /\ resp'.status = "constraint"
                   /\ UNCHANGED store]_vars

\* C17 witness: an enroll request of a student who has a row for the course
\* was answered with a constraint violation.
C17_Witness ==
    /\ resp.op = "insert_enrollment" /\ resp.status = "constraint"
    /\ \E e \in enrollments : e.student_id = resp.by
    /\ DOMAIN courses = Courses

\* C18: for every MentorRequest row in every reachable state, reviewed_at is
\* set if and only if status is not pending.
C18_ReviewedIffNotPending ==
    \A id \in DOMAIN mentor_requests :
        (mentor_requests[id].reviewed_at # NULL)
            <=> (mentor_requests[id].status # DefaultStatus)

\* C19: no row of any table is removed by a request of a principal.
C19_NoDirectDelete ==
    [][/\ DOMAIN users \subseteq DOMAIN users'
       /\ DOMAIN mentor_requests \subseteq DOMAIN mentor_requests'
       /\ DOMAIN sessions \subseteq DOMAIN sessions'
       /\ DOMAIN user_projects \subseteq DOMAIN user_projects']_vars

\* C19 as amended: a request of a principal removes no row, except that a
\* DELETE on sessions removes sessions whose mentor_id is the caller and a
\* DELETE on user_projects removes projects whose user_id is the caller.
C19_DeleteOwnSessionOrProjectOnly ==
    [][/\ DOMAIN users \subseteq DOMAIN users'
       /\ DOMAIN mentor_requests \subseteq DOMAIN mentor_requests'
       /\ \A id \in DOMAIN sessions \ DOMAIN sessions' :
            /\ resp'.op = "delete_session"
            /\ sessions[id].mentor_id = resp'.by
       /\ \A id \in DOMAIN user_projects \ DOMAIN user_projects' :
            /\ resp'.op = "delete_project"
            /\ user_projects[id].user_id = resp'.by
       /\ resp'.op = "delete" => UNCHANGED store]_vars

\* C19 witness: a mentor's DELETE removed their session, while a mentor
\* request and a project are in the store.
C19_Witness ==
    /\ resp.op = "delete_session" /\ resp.status = "ok" /\ resp.rows = 1
    /\ sessions = <<>>
    /\ DOMAIN mentor_requests # {}
    /\ DOMAIN user_projects # {}

\* C20: Certificate rows are inserted by the completion trigger only, in the
\* step that completes an enrollment; an INSERT into certificates sent by a
\* principal is denied and an UPDATE of certificates changes no row.
C20_CertificatesByPipelineOnly ==
    [][/\ certificates' # certificates =>
            /\ resp'.op = "update_enrollment"
            /\ certificates \subseteq certificates'
            /\ \A cert \in certificates' \ certificates :
                \E e \in enrollments :
                    /\ ~e.is_completed
                    /\ CompletedIn(enrollments', e.id)
                    /\ cert.student_id = e.student_id
                    /\ cert.course_id = e.course_id
       /\ resp'.op = "insert_certificate" =>
            (resp'.status = "rls" /\ certificates' = certificates)
       /\ resp'.op = "update" =>
            (resp'.rows = 0 /\ certificates' = certificates)]_vars

\* C20 witness: a student with a completed enrollment was denied an INSERT
\* into certificates.
C20_Witness ==
    /\ resp.op = "insert_certificate" /\ resp.status = "rls"
    /\ \E e \in enrollments : e.student_id = resp.by /\ e.is_completed

\* C22: xp_points reflects completion events and nothing else: a new User row
\* starts with xp_points = 0, and a request changes a user's xp_points only
\* when it is the completion of one of that user's enrollments, by exactly 50.
C22_XpOnlyFromCompletions ==
    [][/\ \A id \in DOMAIN users' \ DOMAIN users :
            users'[id].xp_points = DefaultXp
       /\ \A id \in DOMAIN users :
            users'[id].xp_points # users[id].xp_points
            => /\ resp'.op = "update_enrollment"
               /\ users'[id].xp_points = users[id].xp_points + XpAward
               /\ \E e \in enrollments :
                    /\ e.student_id = id
                    /\ ~e.is_completed
                    /\ CompletedIn(enrollments', e.id)]_vars

\* C25: in every reachable state each Enrollment row with is_completed = true
\* has a Certificate row with the same student_id and course_id.
C25_CompletedHasCertificate ==
    \A e \in enrollments :
        e.is_completed => CertificatesOf(certificates, e.student_id, e.course_id) # {}

\* C26: a request of a principal whose role is student leaves that principal's
\* role at student and creates no Course, so no sequence of a student's own
\* requests makes them a mentor or an admin or the creator of a Course.
C26_StudentStaysStudent ==
    [][\A uid \in {resp'.by} \cap DOMAIN users :
        users[uid].role = "student"
        => /\ users'[uid].role = "student"
           /\ courses' = courses]_vars

(* ------------------- the two level computations ------------------------ *)

\* The range of xp_points the level computations are compared on:
\* -MaxXp .. MaxXp.
MaxXp == 300

\* calculate_level(xp_points): GREATEST(1, (xp_points / 100) + 1)
calculate_level(xp_points) ==
    IF IntDiv(xp_points, XpPerLevel) + 1 >= 1
    THEN IntDiv(xp_points, XpPerLevel) + 1
    ELSE 1

\* award_xp_and_badges(user_id, xp_amount) of the earlier revision, run as
\* uid: UPDATE users SET xp_points = xp_points + xp_amount, level_number =
\* calculate_level(xp_points + xp_amount) WHERE id = user_id.
award_xp_and_badges(uid, user_id, xp_amount, us) ==
    IF user_id \in DOMAIN us /\ UsersUpdateUsing(uid, user_id)
    THEN [us EXCEPT ![user_id] =
            [@ EXCEPT !.xp_points = @ + xp_amount,
                      !.level_number =
                            calculate_level(us[user_id].xp_points + xp_amount)]]
    ELSE us

\* Every variable but users as Init leaves it.
InitButUsers ==
    /\ courses = <<>>
    /\ enrollments = {}
    /\ reviews = {}
    /\ certificates = {}
    /\ mentor_requests = <<>>
    /\ sessions = <<>>
    /\ learning_communities = <<>>
    /\ user_projects = <<>>
    /\ community_members = {}
    /\ community_resources = {}
    /\ is_member = [u \in Users |-> {}]
    /\ accounts = {}
    /\ signUp = [u \in Users |-> "idle"]
    /\ user = NULL
    /\ profile = NULL
    /\ loading = TRUE
    /\ mounted = TRUE
    /\ getSession = "pending"
    /\ fetches = {}
    /\ badges = SeededBadges
    /\ user_badges = {}
    /\ resp = Response("none", "nobody", "ok", 0)

\* A profile row whose owner wrote xp_points (the users policies guard no
\* column), with the level the earlier revision gives it.
InitLevel ==
    /\ \E id \in Users, xp \in (-MaxXp)..MaxXp :
            users = (id :> [role |-> DefaultRole, year_of_study |-> DefaultYear,
                            xp_points |-> xp,
                            level_number |-> calculate_level(xp)])
    /\ InitButUsers

\* The later revision's award: the UPDATE users statement of
\* award_completion_xp for student_id, run as student_id.
TriggerAward(student_id) ==
    /\ student_id \in DOMAIN users
    /\ users[student_id].xp_points + XpAward <= MaxXp
    /\ users' = AwardXp(student_id, student_id, users)
    /\ resp' = Response("trigger_award", student_id, "ok", 1)
    /\ UNCHANGED <<courses, enrollments, reviews, certificates, side, beside>>

\* The earlier revision's award: PERFORM award_xp_and_badges(student_id, 50).
EarlierAward(student_id) ==
    /\ student_id \in DOMAIN users
    /\ users[student_id].xp_points + XpAward <= MaxXp
    /\ users' = award_xp_and_badges(student_id, student_id, XpAward, users)
    /\ resp' = Response("earlier_award", student_id, "ok", 1)
    /\ UNCHANGED <<courses, enrollments, reviews, certificates, side, beside>>

NextLevel ==
    \/ \E student_id \in Users : TriggerAward(student_id)
    \/ \E student_id \in Users : EarlierAward(student_id)

SpecLevel == InitLevel /\ [][NextLevel]_vars

\* C24: for every xp_points in -MaxXp .. MaxXp, negative values included, the
\* level_number the later trigger's award stores, FLOOR((xp + 50) / 100) + 1,
\* is calculate_level(xp + 50) of the earlier revision, and it is at least 1.
C24_LevelRevisionsAgree ==
    [][resp'.op = "trigger_award" =>
       \A id \in {resp'.by} :
        /\ users'[id].level_number =
                calculate_level(users[id].xp_points + XpAward)
        /\ users'[id].level_number >= 1]_vars

(* ------------------ completions sent by the owner ---------------------- *)

\* The progression core with the table owner among the callers: profiles,
\* courses and enrollments are written by the principals, enrollments are
\* updated by a principal or by the owner.
NextOwner ==
    \/ \E uid \in Users, role \in Roles :
            InsertUser(uid, uid, role, DefaultYear, DefaultXp, DefaultLevel)
    \/ \E uid \in Users, id \in Courses, mentor_id \in Users,
          is_active \in BOOLEAN :
            InsertCourse(uid, id, mentor_id, is_active)
    \/ \E uid \in Users, student_id \in Users, course_id \in Courses,
          is_completed \in BOOLEAN :
            InsertEnrollment(uid, student_id, course_id, is_completed, NULL)
    \/ \E uid \in Users \cup {Owner}, e \in enrollments,
          is_completed \in BOOLEAN, cert_id \in CertIds :
            UpdateEnrollment(uid, e.id, is_completed, cert_id)

SpecOwner == Init /\ [][NextOwner]_vars

\* C21: no two Certificate rows ever share a certificate_id, and no update of
\* an enrollment is rejected because the identifier generated for it is the
\* certificate_id of an existing row.
C21_CertificateIdsNeverCollide ==
    [][/\ \A a, b \in certificates' :
            a.certificate_id = b.certificate_id => a = b
       /\ resp'.op = "update_enrollment" => resp'.status # "constraint"]_vars

CommunityMembersInsertCheck(uid, user_id) == user_id = uid

\* "Community members can read memberships": USING (user_id = auth.uid() OR
\* EXISTS (SELECT 1 FROM community_members cm WHERE ...)).  The tables its
\* sub-select reads, and the value of the policy for a row.
CommunityMembersSelectReads == {"community_members"}
CommunityMembersSelectUsing(uid, row) ==
    \/ row.user_id = uid
    \/ \E cm \in community_members :
            cm.community_id = row.community_id /\ cm.user_id = uid

\* A policy of table whose sub-select reads table again: expanding the
\* policies of a statement that reads the table never ends, and the statement
\* of an authenticated principal fails with "infinite recursion detected in
\* policy for relation".
RecursivePolicy(table) ==
    table = "community_members" /\ table \in CommunityMembersSelectReads

\* The statement of uid reads one of the tables in reads under a recursive
\* policy.
PolicyRecursion(uid, reads) ==
    ~BypassesRls(uid) /\ \E table \in reads : RecursivePolicy(table)

\* Mutant of ResourcesInsertCheck: the policy looks at uploaded_by alone.
ResourcesInsertCheck_UploaderOnly(uid, row) ==
    [reads |-> {}, holds |-> row.uploaded_by = uid]

\* "Senior members can upload resources": WITH CHECK (uploaded_by = auth.uid()
\* AND EXISTS (SELECT 1 FROM community_members cm JOIN users u ON u.id =
\* cm.user_id WHERE cm.community_id = community_resources.community_id AND
\* cm.user_id = auth.uid() AND u.year_of_study >= 2)): the tables the policy
\* reads and its value for a row.
ResourcesInsertCheck(uid, row) ==
    [reads |-> {"community_members", "users"},
     holds |-> /\ row.uploaded_by = uid
               /\ \E cm \in community_members :
                    /\ CommunityMembersSelectUsing(uid, cm)
                    /\ cm.community_id = row.community_id
                    /\ cm.user_id = uid
                    /\ cm.user_id \in DOMAIN users
                    /\ users[cm.user_id].year_of_study >= SeniorYear]

\* handleJoinCommunity, and the auto-join of handleCreateCommunity: INSERT
\* INTO community_members (community_id, user_id, role) by uid.
JoinCommunity(uid, community_id, user_id) ==
    IF ~(BypassesRls(uid) \/ CommunityMembersInsertCheck(uid, user_id))
    THEN /\ resp' = Response("insert_member", uid, "rls", 0)
         /\ UNCHANGED store
    ELSE IF \/ community_id \notin DOMAIN learning_communities
            \/ user_id \notin DOMAIN users
            \/ \E cm \in community_members :
                    cm.community_id = community_id /\ cm.user_id = user_id
    THEN /\ resp' = Response("insert_member", uid, "constraint", 0)
         /\ UNCHANGED store
    ELSE /\ community_members' = community_members \cup
                {[community_id |-> community_id, user_id |-> user_id]}
         /\ resp' = Response("insert_member", uid, "ok", 1)
         /\ UNCHANGED <<core, side, community_resources, is_member, client, awards>>

\* The rows SELECT community_id FROM community_members WHERE user_id = uid
\* gives uid: no data when the statement fails.
SelectMemberships(uid) ==
    IF PolicyRecursion(uid, {"community_members"})
    THEN {}
    ELSE {cm \in community_members :
            /\ BypassesRls(uid) \/ CommunityMembersSelectUsing(uid, cm)
            /\ cm.user_id = uid}

\* fetchCommunities of the page of uid, who has a profile: the active
\* communities, each with is_member = userMemberships.has(community.id); the
\* errors of the two membership reads are not looked at.
FetchCommunities(uid) ==
    /\ uid \in DOMAIN users
    /\ is_member' = [is_member EXCEPT ![uid] =
            {g \in DOMAIN learning_communities :
                /\ CommunitiesSelectUsing(uid, learning_communities[g])
                /\ learning_communities[g].is_active
                /\ \E cm \in SelectMemberships(uid) : cm.community_id = g}]
    /\ resp' = Response("fetch_communities", uid,
                        IF PolicyRecursion(uid, {"community_members"})
                        THEN "recursion" ELSE "ok",
                        Cardinality(SelectMemberships(uid)))
    /\ UNCHANGED <<core, side, community_members, community_resources,
                   client, awards>>

\* handleAddResource: INSERT INTO community_resources (community_id,
\* uploaded_by, ...) by uid.
InsertResource(uid, community_id, uploaded_by) ==
    LET row == [community_id |-> community_id, uploaded_by |-> uploaded_by]
        check == ResourcesInsertCheck(uid, row)
    IN  IF PolicyRecursion(uid, check.reads)
        THEN /\ resp' = Response("insert_resource", uid, "recursion", 0)
             /\ UNCHANGED store
        ELSE IF ~(BypassesRls(uid) \/ check.holds)
        THEN /\ resp' = Response("insert_resource", uid, "rls", 0)
             /\ UNCHANGED store
        ELSE IF \/ community_id \notin DOMAIN learning_communities
                \/ uploaded_by \notin DOMAIN users
        THEN /\ resp' = Response("insert_resource", uid, "constraint", 0)
             /\ UNCHANGED store
        ELSE /\ community_resources' = community_resources \cup {row}
             /\ resp' = Response("insert_resource", uid, "ok", 1)
             /\ UNCHANGED <<core, side, community_members, is_member,
                            client, awards>>

\* Communities with their members and resources: profiles with their
\* year_of_study, communities, joins, the community page and uploads.
NextResources ==
    \/ \E uid \in Users, year \in YearInputs :
            InsertUser(uid, uid, DefaultRole, year, DefaultXp, DefaultLevel)
    \/ \E uid \in Users, patch \in UserPatchesOver({"year_of_study"}) :
            UpdateUser(uid, uid, patch)
    \/ \E uid \in Users, id \in CommunityIds, is_active \in BOOLEAN :
            InsertCommunity(uid, id, uid, is_active)
    \/ \E uid \in Users, community_id \in CommunityIds, user_id \in Users :
            JoinCommunity(uid, community_id, user_id)
    \/ \E uid \in Users : FetchCommunities(uid)
    \/ \E uid \in Users, community_id \in CommunityIds, uploaded_by \in Users :
            InsertResource(uid, community_id, uploaded_by)

SpecResources == Init /\ [][NextResources]_vars

\* The predicate of the CommunityResource create rule: uploaded_by is the
\* acting principal, who is a member of the community with year_of_study >= 2.
SeniorMemberUpload(uid, community_id, uploaded_by) ==
    /\ uploaded_by = uid
    /\ [community_id |-> community_id, user_id |-> uid] \in community_members
    /\ uid \in DOMAIN users
    /\ users[uid].year_of_study >= SeniorYear

\* The community page of uid offers Add Resource for community_id:
\* profile.year_of_study >= 2 and is_member.
OffersAddResource(uid, community_id) ==
    /\ uid \in DOMAIN users
    /\ users[uid].year_of_study >= SeniorYear
    /\ community_id \in is_member[uid]

MaxFetches == 1

\* A request sent without a session (signUp gave none: the account's email is
\* not confirmed yet); no policy is TO anon.
Anon == "anon"

\* The accounts that exist and the profile rows they have when the page is
\* loaded: useAuth starts with user and profile null, loading true, its
\* effect mounted and getSession() pending.
InitAuth ==
    /\ \E registered \in SUBSET Users, profiled \in SUBSET Users :
            /\ profiled \subseteq registered
            /\ accounts = registered
            /\ users = [id \in profiled |->
                            [role |-> DefaultRole, year_of_study |-> DefaultYear,
                             xp_points |-> DefaultXp, level_number |-> DefaultLevel]]
    /\ courses = <<>>
    /\ enrollments = {}
    /\ reviews = {}
    /\ certificates = {}
    /\ mentor_requests = <<>>
    /\ sessions = <<>>
    /\ learning_communities = <<>>
    /\ user_projects = <<>>
    /\ community_members = {}
    /\ community_resources = {}
    /\ is_member = [u \in Users |-> {}]
    /\ signUp = [u \in Users |-> "idle"]
    /\ user = NULL
    /\ profile = NULL
    /\ loading = TRUE
    /\ mounted = TRUE
    /\ getSession = "pending"
    /\ fetches = {}
    /\ badges = SeededBadges
    /\ user_badges = {}
    /\ resp = Response("none", "nobody", "ok", 0)

\* signUp, first request: supabase.auth.signUp({email, password}) for an email
\* that has no account.  On error signUp returns the error; otherwise the
\* account exists and the profile insert follows.
SignUpAccount(id, outcome) ==
    /\ signUp[id] = "idle"
    /\ id \notin accounts
    /\ IF outcome = "error"
       THEN /\ signUp' = [signUp EXCEPT ![id] = "error"]
            /\ UNCHANGED accounts
       ELSE /\ accounts' = accounts \cup {id}
            /\ signUp' = [signUp EXCEPT ![id] = "account"]
    /\ resp' = Response("auth_sign_up", id, outcome, 0)
    /\ UNCHANGED <<core, side, community, hook, awards>>

\* signUp, second request: INSERT INTO users (id, email, full_name,
\* department, year_of_study) with id = data.user.id, sent as uid (the new
\* account's session, or none).  profileError makes signUp return the error,
\* otherwise it returns data.
SignUpProfile(id, uid, year) ==
    /\ signUp[id] = "account"
    /\ IF ~UsersInsertCheck(uid, id)
       THEN /\ resp' = Response("insert_user", uid, "rls", 0)
            /\ signUp' = [signUp EXCEPT ![id] = "error"]
            /\ UNCHANGED users
       ELSE IF id \in DOMAIN users
       THEN /\ resp' = Response("insert_user", uid, "constraint", 0)
            /\ signUp' = [signUp EXCEPT ![id] = "error"]
            /\ UNCHANGED users
       ELSE /\ users' = users @@ (id :> [role |-> DefaultRole,
                                         year_of_study |-> year,
                                         xp_points |-> DefaultXp,
                                         level_number |-> DefaultLevel])
            /\ resp' = Response("insert_user", uid, "ok", 1)
            /\ signUp' = [signUp EXCEPT ![id] = "ok"]
    /\ UNCHANGED <<courses, enrollments, reviews, certificates, side,
                   community, accounts, hook, awards>>

\* A fetchProfile(userId) call in flight, started by caller; n tells the
\* calls apart (0 is the one getSession's callback starts).
Fetch(n, userId, caller) == [n |-> n, userId |-> userId, caller |-> caller]
FreeFetch == CHOOSE n \in 1..MaxFetches : \A f \in fetches : f.n # n
CanFetch == \E n \in 1..MaxFetches : \A f \in fetches : f.n # n

\* Mutant of ResolveGetSession: fetchProfile(session.user.id) is called
\* without .finally(...), so nothing follows the fetch.
ResolveGetSession_NoFinally(outcome) ==
    /\ getSession = "pending"
    /\ getSession' = "done"
    /\ IF ~mounted
       THEN UNCHANGED <<user, loading, fetches>>
       ELSE IF outcome = "error"
       THEN /\ loading' = FALSE
            /\ UNCHANGED <<user, fetches>>
       ELSE /\ user' = outcome
            /\ IF outcome # NULL
               THEN /\ fetches' = fetches \cup {Fetch(0, outcome, "refreshProfile")}
                    /\ UNCHANGED loading
               ELSE /\ loading' = FALSE
                    /\ UNCHANGED fetches
    /\ resp' = Response("get_session", "nobody", "ok", 0)
    /\ UNCHANGED <<core, side, community, accounts, signUp, profile, mounted, awards>>

\* supabase.auth.getSession().then(...): the promise resolves with an error,
\* with no session (NULL) or with the session of an account.
ResolveGetSession(outcome) ==
    /\ getSession = "pending"
    /\ getSession' = "done"
    /\ IF ~mounted
       THEN UNCHANGED <<user, loading, fetches>>
       ELSE IF outcome = "error"
       THEN /\ loading' = FALSE
            /\ UNCHANGED <<user, fetches>>
       ELSE /\ user' = outcome
            /\ IF outcome # NULL
               THEN /\ fetches' = fetches \cup {Fetch(0, outcome, "getSession")}
                    /\ UNCHANGED loading
               ELSE /\ loading' = FALSE
                    /\ UNCHANGED fetches
    /\ resp' = Response("get_session", "nobody", "ok", 0)
    /\ UNCHANGED <<core, side, community, accounts, signUp, profile, mounted, awards>>

\* The onAuthStateChange callback up to its await: an event with the session
\* of an account (sign-in) or with none (sign-out).
AuthStateChange(session_user) ==
    /\ mounted
    /\ user' = session_user
    /\ IF session_user # NULL
       THEN /\ CanFetch
            /\ fetches' = fetches \cup {Fetch(FreeFetch, session_user, "onAuthStateChange")}
            /\ UNCHANGED <<profile, loading>>
       ELSE /\ profile' = NULL
            /\ loading' = FALSE
            /\ UNCHANGED fetches
    /\ resp' = Response("auth_state_change", "nobody", "ok", 0)
    /\ UNCHANGED <<core, side, community, accounts, signUp, mounted, getSession, awards>>

\* refreshProfile: user && fetchProfile(user.id)
RefreshProfile ==
    /\ user # NULL
    /\ CanFetch
    /\ fetches' = fetches \cup {Fetch(FreeFetch, user, "refreshProfile")}
    /\ resp' = Response("refresh_profile", "nobody", "ok", 0)
    /\ UNCHANGED <<core, side, community, accounts, signUp, user, profile,
                   loading, mounted, getSession, awards>>

\* The data of SELECT * FROM users WHERE id = userId (maybeSingle): the row,
\* or null when there is none.
ProfileData(userId) == IF userId \in DOMAIN users THEN userId ELSE NULL

\* fetchProfile from its await on, with what its caller does next: on error
\* profile stays, otherwise setProfile(data); then getSession's finally does
\* setLoading(false) if mounted, the onAuthStateChange callback does
\* setLoading(false), and refreshProfile does nothing.
ResolveFetch(f, outcome) ==
    /\ f \in fetches
    /\ fetches' = fetches \ {f}
    /\ profile' = IF outcome = "error" THEN profile ELSE ProfileData(f.userId)
    /\ loading' = IF f.caller = "getSession" THEN (IF mounted THEN FALSE ELSE loading)
                  ELSE IF f.caller = "onAuthStateChange" THEN FALSE
                  ELSE loading
    /\ resp' = Response("select_profile", f.userId, outcome, 0)
    /\ UNCHANGED <<core, side, community, accounts, signUp, user, mounted,
                   getSession, awards>>

\* The effect's cleanup: mounted = false and the subscription is cancelled.
Unmount ==
    /\ mounted
    /\ mounted' = FALSE
    /\ resp' = Response("unmount", "nobody", "ok", 0)
    /\ UNCHANGED <<core, side, community, accounts, signUp, user, profile,
                   loading, getSession, fetches, awards>>

NextAuth ==
    \/ \E id \in Users, outcome \in {"ok", "error"} : SignUpAccount(id, outcome)
    \/ \E id \in Users, year \in YearInputs : \E uid \in {id, Anon} :
            SignUpProfile(id, uid, year)
    \/ \E outcome \in accounts \cup {NULL, "error"} : ResolveGetSession(outcome)
    \/ \E session_user \in accounts \cup {NULL} : AuthStateChange(session_user)
    \/ RefreshProfile
    \/ \E f \in fetches, outcome \in {"ok", "error"} : ResolveFetch(f, outcome)
    \/ Unmount

SpecAuth == InitAuth /\ [][NextAuth]_vars

\* Every outstanding request is answered in the end: the getSession() promise
\* and each fetchProfile call in flight resolve.
FairAuth ==
    /\ WF_vars(\E outcome \in accounts \cup {NULL, "error"} : ResolveGetSession(outcome))
    /\ \A n \in 0..MaxFetches :
        WF_vars(\E f \in fetches, outcome \in {"ok", "error"} :
                    f.n = n /\ ResolveFetch(f, outcome))

SpecAuthFair == InitAuth /\ [][NextAuth]_vars /\ FairAuth

\* C28: while the hook is mounted, a non-null profile implies a non-null
\* user, whatever the order in which getSession resolves, auth-state-change
\* events arrive and profile fetches resolve.
C28_ProfileImpliesUser ==
    mounted => (profile # NULL => user # NULL)

\* C29: if the hook stays mounted, loading becomes false and from then on
\* stays false, given that getSession() and every fetchProfile call resolve.
C29_LoadingSettles ==
    ([]mounted) => <>[](loading = FALSE)

\* C29 witness: getSession() resolved with a session, the profile fetch it
\* started resolved, and the mounted hook is not loading.
C29_Witness ==
    /\ mounted /\ ~loading
    /\ getSession = "done" /\ fetches = {}
    /\ user # NULL /\ profile = user
    /\ resp.op = "select_profile"

\* C30: a signUp call that returned an error has created no authentication
\* account, and one that returned without error has left a User row whose id
\* is the new account's id.
C30_SignUpAllOrNothing ==
    \A id \in Users :
        /\ signUp[id] = "error" => id \notin accounts
        /\ signUp[id] = "ok" => id \in accounts /\ id \in DOMAIN users

====
